---- MODULE Spec2Model ----
(***************************************************************************)
(* Model of NotionClient (src/src/notion_client/client.py): the four TTL   *)
(* caches, the cache accessor, the invalidation router, the request        *)
(* executor and the read/write operations that sequence them.              *)
(*                                                                         *)
(* Strings that the code inspects character by character (resource ids and *)
(* the composite blocks-cache keys "{id}:{page_size}") are sequences of    *)
(* one-character strings, so that str.startswith and the f-string          *)
(* formatting are computed, not assumed.                                   *)
(***************************************************************************)
EXTENDS Naturals, Sequences, FiniteSets

----------------------------------------------------------------------------
(* Bounds of the model *)

\* number of client operations in one behaviour
MaxOps == 3

\* latest time on the caches' timer at which the router is called
MaxTime == 3

\* number of calls made on a filled cache, or with any transport outcome
MaxCalls == 1

\* number of operations made while the caches' timer runs, or on full caches
MaxReads == 2

\* number of threads that call the client at the same time
NumThreads == 2

\* number of get_page calls made in all, one of them before the threads start
MaxLookups == 3

\* number of update_page calls the threads make in all
MaxWrites == 1

\* ClientConfig values of the modelled client (config.py defaults are 300,
\* 600, 1800, 1800 seconds and 100 entries; the model's clock unit is coarse)
cache_ttl_pages == 1
cache_ttl_blocks == 2
cache_ttl_databases == 3
cache_ttl_data_sources == 3
cache_max_size == 2

----------------------------------------------------------------------------
(* Inputs *)

\* resource ids: "a" and "ab" ("a" is a string prefix of "ab")
IdSeq == << <<"a">>, <<"a", "b">> >>

Ids == {IdSeq[i] : i \in 1..Len(IdSeq)}

\* page_size arguments of get_block_children
PageSizeSeq == <<5, 50>>

PageSizes == {PageSizeSeq[i] : i \in 1..Len(PageSizeSeq)}

\* statuses the service answers with
Statuses == {100, 200, 201, 302, 400, 401, 404, 409, 429, 500}

\* what session.request / response.json can do: answer with a status and a
\* body that parses as JSON or not, or raise requests.exceptions.Timeout,
\* ConnectTimeout (a Timeout and a ConnectionError), ConnectionError or
\* another Exception
Transport ==
    [kind : {"status"}, status : Statuses, json_ok : BOOLEAN]
    \cup [kind : {"timeout", "connect_timeout", "connection", "exception"},
          status : {0}, json_ok : {FALSE}]

\* the outcomes that sequences of operations are run with: the call
\* succeeds, the service carries it out but the caller gets an exception,
\* the service refuses it
Outcomes ==
    [kind : {"status"}, status : {200}, json_ok : BOOLEAN]
    \cup [kind : {"status"}, status : {404}, json_ok : {TRUE}]

----------------------------------------------------------------------------
(* Strings *)

Digits == <<"0", "1", "2", "3", "4", "5", "6", "7", "8", "9">>

\* str(n) for a non-negative int
RECURSIVE Str(_)
Str(n) == IF n < 10 THEN <<Digits[n + 1]>>
          ELSE Str(n \div 10) \o <<Digits[(n % 10) + 1]>>

\* s.startswith(p)
StartsWith(s, p) == /\ Len(s) >= Len(p)
                    /\ SubSeq(s, 1, Len(p)) = p

\* f"{block_id}:{page_size}"
CacheKey(block_id, page_size) == block_id \o <<":">> \o Str(page_size)

----------------------------------------------------------------------------
(* Remote responses *)

\* the parsed body of a response: the status it came with, the object kind,
\* the id and page size asked for, the revision of the remote resource and
\* the time the service answered at
Resp(status, obj, id, ps, rev) ==
    [status |-> status, obj |-> obj, id |-> id, ps |-> ps, rev |-> rev, at |-> 0]

\* response r answered at time t
At(r, t) == [r EXCEPT !.at = t]

NoResp == Resp(0, "none", <<>>, 0, 0)

----------------------------------------------------------------------------
(* cachetools.TTLCache: a sequence of entries, oldest first *)

Entry(k, v, e) == [key |-> k, value |-> v, expires |-> e]

RECURSIVE SelectEntries(_, _, _)
\* the entries of c that are not expired at time t and whose key is not in ks
SelectEntries(c, t, ks) ==
    IF c = <<>> THEN <<>>
    ELSE LET h == Head(c)
             r == SelectEntries(Tail(c), t, ks)
         IN IF t < h.expires /\ h.key \notin ks THEN <<h>> \o r ELSE r

\* key in cache
Contains(c, t, k) == \E i \in 1..Len(c) : c[i].key = k /\ t < c[i].expires

\* cache[key], for a key in the cache
Lookup(c, t, k) == LET i == CHOOSE i \in 1..Len(c) : c[i].key = k /\ t < c[i].expires
                   IN c[i].value

\* cache[key] that leaves the order of the cache alone
TouchKeepsOrder(c, t, k) == c

\* what cache[key] does to the order of a cache that holds key: the entry
\* becomes the most recently used one and keeps its expiry
Touch(c, t, k) ==
    LET i == CHOOSE i \in 1..Len(c) : c[i].key = k /\ t < c[i].expires
    IN SubSeq(c, 1, i - 1) \o SubSeq(c, i + 1, Len(c)) \o <<c[i]>>

\* cache.keys(): live keys only
Keys(c, t) == {c[i].key : i \in {j \in 1..Len(c) : t < c[j].expires}}

\* len(cache)
Size(c, t) == Cardinality(Keys(c, t))

RECURSIVE Evict(_, _)
\* popitem() until one more entry fits: the least recently used goes first
Evict(c, maxsize) == IF Len(c) + 1 > maxsize /\ c # <<>> THEN Evict(Tail(c), maxsize) ELSE c

\* cache[key] = value with an entry that is still live when its ttl has elapsed
SetItemLiveAtTTL(c, t, k, v, ttl, maxsize) ==
    LET live == SelectEntries(c, t, {})
        rest == SelectEntries(c, t, {k})
    IN IF Contains(live, t, k)
       THEN Append(rest, Entry(k, v, t + ttl + 1))
       ELSE Append(Evict(live, maxsize), Entry(k, v, t + ttl + 1))

\* cache[key] = value: expire, make room for a new key, (re)insert as newest
SetItem(c, t, k, v, ttl, maxsize) ==
    LET live == SelectEntries(c, t, {})
        rest == SelectEntries(c, t, {k})
    IN IF Contains(live, t, k)
       THEN Append(rest, Entry(k, v, t + ttl))
       ELSE Append(Evict(live, maxsize), Entry(k, v, t + ttl))

\* del cache[key], for a key in the cache
DelItem(c, t, k) == LET i == CHOOSE i \in 1..Len(c) : c[i].key = k
                    IN SubSeq(c, 1, i - 1) \o SubSeq(c, i + 1, Len(c))

----------------------------------------------------------------------------
(* State of one NotionClient and of the remote service *)

VARIABLES
    enable_caching,     \* config.enable_caching
    has_cache,          \* FALSE when _setup_cache set the caches, lock and stats to None
    page_cache,         \* _page_cache
    blocks_cache,       \* _blocks_cache
    db_cache,           \* _db_cache
    data_source_cache,  \* _data_source_cache
    cache_stats,        \* _cache_stats
    now,                \* the caches' timer
    remote,             \* revision of each resource held by the remote service
    nops,               \* operations performed so far
    lookups,            \* _get_from_cache calls made so far
    last,               \* the operation just performed and what its caller saw
    prev,               \* the write to the same id that the last read followed, if any
    lock,               \* the thread that holds _cache_lock, 0 when it is free
    thread_pc,          \* where each thread is in the get_page call it makes
    local               \* each thread's call, loaded counter and response

vars == <<enable_caching, has_cache, page_cache, blocks_cache, db_cache,
          data_source_cache, cache_stats, now, remote, nops, lookups, last, prev,
          lock, thread_pc, local>>

threads == <<lock, thread_pc, local>>

caches == <<page_cache, blocks_cache, db_cache, data_source_cache>>

config == <<enable_caching, has_cache>>

\* the dict get_cache_stats returns; fields lists the keys it has
NoStats == [fields |-> {}, enabled |-> FALSE, hits |-> 0, misses |-> 0,
            invalidations |-> 0, total_requests |-> 0,
            pages |-> 0, blocks |-> 0, databases |-> 0, data_sources |-> 0]

\* no call of session.request
NoSent == [kind |-> "none", status |-> 0, json_ok |-> FALSE]

\* what an operation did and what its caller saw: the calls of
\* session.request it made and what the last of them did (sent), the
\* exception class it raised and the status_code the exception carries, the
\* value it returned
NoLast == [op |-> "none", id |-> <<>>, ps |-> 0, scope |-> "", calls |-> 0,
           sent |-> NoSent, raised |-> "none", status_code |-> 0, ret |-> NoResp,
           hit |-> FALSE, deleted |-> {}, stats |-> NoStats]

WriteOps == {"update_page", "update_database", "update_data_source",
             "append_block_children", "update_block", "delete_block",
             "create_page", "create_database"}

ReadOps == {"get_page", "get_database", "get_data_source", "get_block_children",
            "get_block"}

NoPrev == [op |-> "none", returned |-> FALSE, deleted |-> {}]

\* what read l remembers of the operation k performed just before it: a
\* write to the id it reads, or the same read
Brief(k, l) == IF /\ l.op \in ReadOps
                  /\ k.id = l.id
                  /\ \/ k.op \in WriteOps /\ k.calls = 1
                     \/ k.op = l.op /\ k.ps = l.ps
               THEN [op |-> k.op, returned |-> k.raised = "none", deleted |-> k.deleted]
               ELSE NoPrev

\* threads that call the client at the same time
Threads == 1..NumThreads

\* the call a thread is in, or the one it has just returned from: data is
\* the response it holds or has returned, hit whether the cache gave it,
\* calls the number of session.request calls it has made
NoLocal == [op |-> "none", page_id |-> <<>>, misses |-> 0, data |-> NoResp,
            hit |-> FALSE, calls |-> 0]

\* no thread is inside a call
NoCallers ==
    /\ lock = 0
    /\ thread_pc = [t \in Threads |-> "idle"]
    /\ local = [t \in Threads |-> NoLocal]

\* a client just constructed, before any operation
Constructed ==
    /\ NoCallers
    /\ page_cache = <<>>
    /\ blocks_cache = <<>>
    /\ db_cache = <<>>
    /\ data_source_cache = <<>>
    /\ cache_stats = [hits |-> 0, misses |-> 0, invalidations |-> 0]
    /\ now = 0
    /\ remote = [i \in Ids |-> 0]
    /\ nops = 0
    /\ lookups = 0
    /\ last = NoLast
    /\ prev = NoPrev

\* constructed with the default configuration: _setup_cache built the caches
Init ==
    /\ enable_caching = TRUE
    /\ has_cache = TRUE
    /\ Constructed

\* constructed with caching off or without cachetools: _setup_cache set the
\* caches, the lock and the counters to None; enable_caching is a mutable field
\* of the configuration and may be True afterwards
InitDisabled ==
    /\ enable_caching \in BOOLEAN
    /\ has_cache = FALSE
    /\ Constructed

----------------------------------------------------------------------------
(* Request executor *)

\* _handle_error without the entry for 409
HandleErrorNoConflict(status_code) ==
    CASE status_code = 401 -> "NotionAuthenticationError"
      [] status_code = 400 -> "NotionValidationError"
      [] status_code = 429 -> "NotionRateLimitError"
      [] status_code = 404 -> "NotionNotFoundError"
      [] OTHER -> "NotionAPIError"

\* the exception class _handle_error raises for a status
HandleError(status_code) ==
    CASE status_code = 401 -> "NotionAuthenticationError"
      [] status_code = 400 -> "NotionValidationError"
      [] status_code = 429 -> "NotionRateLimitError"
      [] status_code = 404 -> "NotionNotFoundError"
      [] status_code = 409 -> "NotionConflictError"
      [] OTHER -> "NotionAPIError"

\* the class of the exception that session.request raises
TransportError(kind) ==
    CASE kind \in {"timeout", "connect_timeout"} -> "requests.exceptions.Timeout"
      [] kind = "connection" -> "requests.exceptions.ConnectionError"
      [] OTHER -> "Exception"

\* _request without the handlers that wrap what the transport and
\* response.json raise
RequestUnwrapped(o, data) ==
    IF o.kind = "status"
    THEN IF o.status >= 400
         THEN [raised |-> HandleError(o.status), status_code |-> o.status, data |-> NoResp]
         ELSE IF o.json_ok
              THEN [raised |-> "none", status_code |-> 0, data |-> data]
              ELSE [raised |-> "Exception", status_code |-> 0, data |-> NoResp]
    ELSE [raised |-> TransportError(o.kind), status_code |-> 0, data |-> NoResp]

\* _request: what the caller gets for transport outcome o when the body of a
\* parsed response is data
Request(o, data) ==
    IF o.kind = "status"
    THEN IF o.status >= 400
         THEN [raised |-> HandleError(o.status), status_code |-> o.status, data |-> NoResp]
         ELSE IF o.json_ok
              THEN [raised |-> "none", status_code |-> 0, data |-> data]
              ELSE [raised |-> "NotionAPIError", status_code |-> 0, data |-> NoResp]
    ELSE [raised |-> "NotionAPIError", status_code |-> 0, data |-> NoResp]

\* _request calling session.request again after an error status or an
\* exception
RequestCallsRetrying(o) ==
    IF o.kind = "status" /\ o.status < 400 THEN 1 ELSE 2

\* the number of session.request calls _request makes when the transport's
\* outcome is o: the one call of its try block
RequestCalls(o) == 1

\* the remote service carries a write out when it answers 2xx
Applied(o) == o.kind = "status" /\ o.status \in 200..299

----------------------------------------------------------------------------
(* Cache accessor *)

\* _get_from_cache that forgets to count a hit
GetFromCacheHitUncounted(cache, key) ==
    IF ~enable_caching \/ ~has_cache
    THEN [found |-> FALSE, value |-> NoResp, stats |-> cache_stats, cache |-> cache]
    ELSE IF Contains(cache, now, key)
         THEN [found |-> TRUE, value |-> Lookup(cache, now, key), stats |-> cache_stats,
               cache |-> Touch(cache, now, key)]
         ELSE [found |-> FALSE, value |-> NoResp,
               stats |-> [cache_stats EXCEPT !.misses = @ + 1], cache |-> cache]

\* _get_from_cache(cache, key): whether it found the key, what it returns,
\* the counters and the cache after it
GetFromCache(cache, key) ==
    IF ~enable_caching \/ ~has_cache
    THEN [found |-> FALSE, value |-> NoResp, stats |-> cache_stats, cache |-> cache]
    ELSE IF Contains(cache, now, key)
         THEN [found |-> TRUE, value |-> Lookup(cache, now, key),
               stats |-> [cache_stats EXCEPT !.hits = @ + 1],
               cache |-> Touch(cache, now, key)]
         ELSE [found |-> FALSE, value |-> NoResp,
               stats |-> [cache_stats EXCEPT !.misses = @ + 1], cache |-> cache]

\* _store_in_cache that returns without storing
StoreInCacheSkipped(cache, key, value, ttl) == cache

\* _store_in_cache without the check for disabled caching
StoreInCacheUnchecked(cache, key, value, ttl) ==
    SetItem(cache, now, key, value, ttl, cache_max_size)

StoreInCache(cache, key, value, ttl) ==
    IF ~enable_caching \/ ~has_cache
    THEN cache
    ELSE SetItem(cache, now, key, value, ttl, cache_max_size)

----------------------------------------------------------------------------
(* Invalidation router *)

RECURSIVE DelItems(_, _, _)
\* for key in keys_to_delete: del cache[key]
DelItems(c, t, ks) ==
    IF ks = {} THEN c
    ELSE LET k == CHOOSE x \in ks : TRUE
         IN DelItems(DelItem(c, t, k), t, ks \ {k})

\* keys_to_delete matched without the separator
KeysToDeleteNoSeparator(cache, resource_id) ==
    {k \in Keys(cache, now) : k = resource_id \/ StartsWith(k, resource_id)}

\* keys_to_delete that misses the composite keys
KeysToDeleteExact(cache, resource_id) ==
    {k \in Keys(cache, now) : k = resource_id}

\* the blocks-cache keys that reference resource_id
KeysToDelete(cache, resource_id) ==
    {k \in Keys(cache, now) : k = resource_id \/ StartsWith(k, resource_id \o <<":">>)}

\* the caches and counters an operation works on, and the caches it has
\* deleted entries from
Current == [page |-> page_cache, blocks |-> blocks_cache, db |-> db_cache,
            ds |-> data_source_cache, stats |-> cache_stats, deleted |-> {}]

\* _invalidate_cache that treats scope page as an alias of block
InvalidateCachePageAlias(c, resource_id, resource_type) ==
    IF ~enable_caching \/ ~has_cache
    THEN c
    ELSE LET in_page == /\ resource_type \in {"page", "all"}
                        /\ Contains(c.page, now, resource_id)
             keys_to_delete == IF resource_type \in {"page", "block", "all"}
                               THEN KeysToDelete(c.blocks, resource_id)
                               ELSE {}
             in_db == /\ resource_type \in {"database", "all"}
                      /\ Contains(c.db, now, resource_id)
             in_ds == /\ resource_type \in {"data_source", "all"}
                      /\ Contains(c.ds, now, resource_id)
             invalidated == in_page \/ keys_to_delete # {} \/ in_db \/ in_ds
         IN [page |-> IF in_page THEN DelItem(c.page, now, resource_id) ELSE c.page,
             blocks |-> DelItems(c.blocks, now, keys_to_delete),
             db |-> IF in_db THEN DelItem(c.db, now, resource_id) ELSE c.db,
             ds |-> IF in_ds THEN DelItem(c.ds, now, resource_id) ELSE c.ds,
             stats |-> IF invalidated
                       THEN [c.stats EXCEPT !.invalidations = @ + 1]
                       ELSE c.stats,
             deleted |-> c.deleted
                         \cup (IF in_page THEN {"pages"} ELSE {})
                         \cup (IF keys_to_delete # {} THEN {"blocks"} ELSE {})
                         \cup (IF in_db THEN {"databases"} ELSE {})
                         \cup (IF in_ds THEN {"data_sources"} ELSE {})]

\* _invalidate_cache that counts every cache it deleted from
InvalidateCacheCountsEach(c, resource_id, resource_type) ==
    IF ~enable_caching \/ ~has_cache
    THEN c
    ELSE LET in_page == /\ resource_type \in {"page", "all"}
                        /\ Contains(c.page, now, resource_id)
             keys_to_delete == IF resource_type \in {"block", "all"}
                               THEN KeysToDelete(c.blocks, resource_id)
                               ELSE {}
             in_db == /\ resource_type \in {"database", "all"}
                      /\ Contains(c.db, now, resource_id)
             in_ds == /\ resource_type \in {"data_source", "all"}
                      /\ Contains(c.ds, now, resource_id)
             invalidated == in_page \/ keys_to_delete # {} \/ in_db \/ in_ds
         IN [page |-> IF in_page THEN DelItem(c.page, now, resource_id) ELSE c.page,
             blocks |-> DelItems(c.blocks, now, keys_to_delete),
             db |-> IF in_db THEN DelItem(c.db, now, resource_id) ELSE c.db,
             ds |-> IF in_ds THEN DelItem(c.ds, now, resource_id) ELSE c.ds,
             stats |-> [c.stats EXCEPT !.invalidations =
                          @ + (IF in_page THEN 1 ELSE 0)
                            + (IF keys_to_delete # {} THEN 1 ELSE 0)
                            + (IF in_db THEN 1 ELSE 0)
                            + (IF in_ds THEN 1 ELSE 0)],
             deleted |-> c.deleted
                         \cup (IF in_page THEN {"pages"} ELSE {})
                         \cup (IF keys_to_delete # {} THEN {"blocks"} ELSE {})
                         \cup (IF in_db THEN {"databases"} ELSE {})
                         \cup (IF in_ds THEN {"data_sources"} ELSE {})]

\* _invalidate_cache that takes the plural names of clear_cache as scopes
InvalidateCacheAcceptsPlural(c, resource_id, resource_type) ==
    IF ~enable_caching \/ ~has_cache
    THEN c
    ELSE LET in_page == /\ resource_type \in {"page", "pages", "all"}
                        /\ Contains(c.page, now, resource_id)
             keys_to_delete == IF resource_type \in {"block", "blocks", "all"}
                               THEN KeysToDelete(c.blocks, resource_id)
                               ELSE {}
             in_db == /\ resource_type \in {"database", "databases", "all"}
                      /\ Contains(c.db, now, resource_id)
             in_ds == /\ resource_type \in {"data_source", "data_sources", "all"}
                      /\ Contains(c.ds, now, resource_id)
             invalidated == in_page \/ keys_to_delete # {} \/ in_db \/ in_ds
         IN [page |-> IF in_page THEN DelItem(c.page, now, resource_id) ELSE c.page,
             blocks |-> DelItems(c.blocks, now, keys_to_delete),
             db |-> IF in_db THEN DelItem(c.db, now, resource_id) ELSE c.db,
             ds |-> IF in_ds THEN DelItem(c.ds, now, resource_id) ELSE c.ds,
             stats |-> IF invalidated
                       THEN [c.stats EXCEPT !.invalidations = @ + 1]
                       ELSE c.stats,
             deleted |-> c.deleted
                         \cup (IF in_page THEN {"pages"} ELSE {})
                         \cup (IF keys_to_delete # {} THEN {"blocks"} ELSE {})
                         \cup (IF in_db THEN {"databases"} ELSE {})
                         \cup (IF in_ds THEN {"data_sources"} ELSE {})]

\* _invalidate_cache(resource_id, resource_type) applied to c
InvalidateCache(c, resource_id, resource_type) ==
    IF ~enable_caching \/ ~has_cache
    THEN c
    ELSE LET in_page == /\ resource_type \in {"page", "all"}
                        /\ Contains(c.page, now, resource_id)
             keys_to_delete == IF resource_type \in {"block", "all"}
                               THEN KeysToDelete(c.blocks, resource_id)
                               ELSE {}
             in_db == /\ resource_type \in {"database", "all"}
                      /\ Contains(c.db, now, resource_id)
             in_ds == /\ resource_type \in {"data_source", "all"}
                      /\ Contains(c.ds, now, resource_id)
             invalidated == in_page \/ keys_to_delete # {} \/ in_db \/ in_ds
         IN [page |-> IF in_page THEN DelItem(c.page, now, resource_id) ELSE c.page,
             blocks |-> DelItems(c.blocks, now, keys_to_delete),
             db |-> IF in_db THEN DelItem(c.db, now, resource_id) ELSE c.db,
             ds |-> IF in_ds THEN DelItem(c.ds, now, resource_id) ELSE c.ds,
             stats |-> IF invalidated
                       THEN [c.stats EXCEPT !.invalidations = @ + 1]
                       ELSE c.stats,
             deleted |-> c.deleted
                         \cup (IF in_page THEN {"pages"} ELSE {})
                         \cup (IF keys_to_delete # {} THEN {"blocks"} ELSE {})
                         \cup (IF in_db THEN {"databases"} ELSE {})
                         \cup (IF in_ds THEN {"data_sources"} ELSE {})]

\* the caches and counters become those of c
Becomes(c) ==
    /\ page_cache' = c.page
    /\ blocks_cache' = c.blocks
    /\ db_cache' = c.db
    /\ data_source_cache' = c.ds
    /\ cache_stats' = c.stats

\* one more operation has been performed; its caller saw l
Done(l) ==
    /\ nops < MaxOps
    /\ nops' = nops + 1
    /\ last' = l
    /\ prev' = Brief(last, l)
    /\ UNCHANGED <<now, enable_caching, has_cache, threads>>

Bump(r, id) == [r EXCEPT ![id] = @ + 1]

----------------------------------------------------------------------------
(* Read operations *)

\* what a read-through of key in cache gives: the cache after it, the
\* counters after it and what the caller sees
ReadThrough(op, cache, key, ttl, obj, id, ps, o) ==
    LET cached == GetFromCache(cache, key)
        result == Request(o, At(Resp(o.status, obj, id, ps, remote[id]), now))
        l == [NoLast EXCEPT !.op = op, !.id = id, !.ps = ps]
    IN IF cached.found
       THEN [cache |-> cached.cache, stats |-> cached.stats,
             last |-> [l EXCEPT !.ret = cached.value, !.hit = TRUE]]
       ELSE [cache |-> IF result.raised = "none"
                       THEN StoreInCache(cached.cache, key, result.data, ttl)
                       ELSE cached.cache,
             stats |-> cached.stats,
             last |-> [l EXCEPT !.calls = RequestCalls(o), !.sent = o, !.raised = result.raised,
                                !.status_code = result.status_code,
                                !.ret = result.data]]

GetPage(page_id, o) ==
    LET r == ReadThrough("get_page", page_cache, page_id, cache_ttl_pages,
                         "page", page_id, 0, o)
    IN /\ Done(r.last)
       /\ lookups' = lookups + 1
       /\ page_cache' = r.cache
       /\ cache_stats' = r.stats
       /\ UNCHANGED <<blocks_cache, db_cache, data_source_cache, remote>>

GetDatabase(database_id, o) ==
    LET r == ReadThrough("get_database", db_cache, database_id, cache_ttl_databases,
                         "database", database_id, 0, o)
    IN /\ Done(r.last)
       /\ lookups' = lookups + 1
       /\ db_cache' = r.cache
       /\ cache_stats' = r.stats
       /\ UNCHANGED <<page_cache, blocks_cache, data_source_cache, remote>>

GetDataSource(data_source_id, o) ==
    LET r == ReadThrough("get_data_source", data_source_cache, data_source_id,
                         cache_ttl_data_sources, "data_source", data_source_id, 0, o)
    IN /\ Done(r.last)
       /\ lookups' = lookups + 1
       /\ data_source_cache' = r.cache
       /\ cache_stats' = r.stats
       /\ UNCHANGED <<page_cache, blocks_cache, db_cache, remote>>

\* get_block_children without the page size in the cache key
GetBlockChildrenKeyedById(block_id, page_size, o) ==
    LET cache_key == block_id \o <<":">>
        r == ReadThrough("get_block_children", blocks_cache, cache_key,
                         cache_ttl_blocks, "list", block_id, page_size, o)
    IN /\ Done(r.last)
       /\ lookups' = lookups + 1
       /\ blocks_cache' = r.cache
       /\ cache_stats' = r.stats
       /\ UNCHANGED <<page_cache, db_cache, data_source_cache, remote>>

GetBlockChildren(block_id, page_size, o) ==
    LET cache_key == CacheKey(block_id, page_size)
        r == ReadThrough("get_block_children", blocks_cache, cache_key,
                         cache_ttl_blocks, "list", block_id, page_size, o)
    IN /\ Done(r.last)
       /\ lookups' = lookups + 1
       /\ blocks_cache' = r.cache
       /\ cache_stats' = r.stats
       /\ UNCHANGED <<page_cache, db_cache, data_source_cache, remote>>

\* get_block read through the blocks cache under the block id
GetBlockCached(block_id, o) ==
    LET r == ReadThrough("get_block", blocks_cache, block_id, cache_ttl_blocks,
                         "block", block_id, 0, o)
    IN /\ Done(r.last)
       /\ lookups' = lookups + 1
       /\ blocks_cache' = r.cache
       /\ cache_stats' = r.stats
       /\ UNCHANGED <<page_cache, db_cache, data_source_cache, remote>>

GetBlock(block_id, o) ==
    LET result == Request(o, At(Resp(o.status, "block", block_id, 0, remote[block_id]),
                                now))
    IN /\ Done([NoLast EXCEPT !.op = "get_block", !.id = block_id,
                              !.calls = RequestCalls(o),
                              !.sent = o, !.raised = result.raised,
                              !.status_code = result.status_code,
                              !.ret = result.data])
       /\ UNCHANGED <<caches, cache_stats, lookups, remote>>

----------------------------------------------------------------------------
(* Write operations *)

\* a write that invalidates whether or not _request returned
WrittenAlwaysInvalidates(op, id, obj, o, written, c) ==
    LET after == IF Applied(o) THEN written ELSE remote
        rev == IF id \in Ids THEN after[id] ELSE 0
        result == Request(o, At(Resp(o.status, obj, id, 0, rev), now))
    IN /\ Done([NoLast EXCEPT !.op = op, !.id = id, !.calls = RequestCalls(o),
                              !.sent = o, !.raised = result.raised,
                              !.status_code = result.status_code,
                              !.ret = result.data,
                              !.deleted = c.deleted])
       /\ Becomes(c)
       /\ remote' = after
       /\ UNCHANGED lookups

\* a write: the remote call with outcome o, which turns the remote state
\* into written when the service carries it out, then, if _request returned,
\* the invalidations that turn the caches into c
Written(op, id, obj, o, written, c) ==
    LET after == IF Applied(o) THEN written ELSE remote
        rev == IF id \in Ids THEN after[id] ELSE 0
        result == Request(o, At(Resp(o.status, obj, id, 0, rev), now))
        inv == IF result.raised = "none" THEN c ELSE Current
    IN /\ Done([NoLast EXCEPT !.op = op, !.id = id, !.calls = RequestCalls(o),
                              !.sent = o, !.raised = result.raised,
                              !.status_code = result.status_code,
                              !.ret = result.data,
                              !.deleted = inv.deleted])
       /\ Becomes(inv)
       /\ remote' = after
       /\ UNCHANGED lookups

\* update_page without the invalidation
UpdatePageKeepsCache(page_id, o) ==
    Written("update_page", page_id, "page", o, Bump(remote, page_id), Current)

UpdatePage(page_id, o) ==
    Written("update_page", page_id, "page", o, Bump(remote, page_id),
            InvalidateCache(Current, page_id, "all"))

UpdateDatabase(database_id, o) ==
    Written("update_database", database_id, "database", o, Bump(remote, database_id),
            InvalidateCache(Current, database_id, "all"))

\* parent is the database_id of the parent argument, <<>> when there is none
UpdateDataSource(data_source_id, parent, o) ==
    LET c1 == InvalidateCache(Current, data_source_id, "data_sources")
        c2 == IF parent # <<>> THEN InvalidateCache(c1, parent, "databases") ELSE c1
        r1 == Bump(remote, data_source_id)
        r2 == IF parent # <<>> /\ parent # data_source_id THEN Bump(r1, parent) ELSE r1
    IN Written("update_data_source", data_source_id, "data_source", o, r2, c2)

AppendBlockChildren(block_id, o) ==
    Written("append_block_children", block_id, "list", o, Bump(remote, block_id),
            InvalidateCache(Current, block_id, "all"))

UpdateBlock(block_id, o) ==
    Written("update_block", block_id, "block", o, Bump(remote, block_id),
            InvalidateCache(Current, block_id, "all"))

\* delete_block that empties the blocks cache to drop the parent's listing
DeleteBlockClearsBlocks(block_id, o) ==
    Written("delete_block", block_id, "block", o, Bump(remote, block_id),
            [InvalidateCache(Current, block_id, "all") EXCEPT !.blocks = <<>>])

DeleteBlock(block_id, o) ==
    Written("delete_block", block_id, "block", o, Bump(remote, block_id),
            InvalidateCache(Current, block_id, "all"))

\* create_database without the invalidation of the parent page
CreateDatabaseKeepsParent(parent_page_id, o) ==
    Written("create_database", parent_page_id, "database", o,
            Bump(remote, parent_page_id), Current)

CreateDatabase(parent_page_id, o) ==
    Written("create_database", parent_page_id, "database", o,
            Bump(remote, parent_page_id),
            InvalidateCache(Current, parent_page_id, "all"))

\* arguments of create_page: "None" stands for an argument left out, <<>>
\* for no parent_id; template is the template's type
CreatePageArgs ==
    [parent_id : Ids \cup {<<>>}, parent_type : {"None"},
     is_data_source_parent : {"None"}, children : {FALSE}, template : {"None"},
     position : {FALSE}]
    \cup [parent_id : {<<"a">>}, parent_type : {"workspace", "database_id"},
          is_data_source_parent : {"None"}, children : {FALSE},
          template : {"None"}, position : {FALSE}]
    \cup [parent_id : {<<"a">>}, parent_type : {"None"},
          is_data_source_parent : {"True"}, children : {TRUE},
          template : {"default"}, position : {FALSE}]
    \cup [parent_id : {<<"a">>}, parent_type : {"data_source_id"},
          is_data_source_parent : {"None"}, children : {FALSE}, template : {"None"},
          position : {TRUE}]
    \cup [parent_id : {<<"a">>}, parent_type : {"database_id"},
          is_data_source_parent : {"True"}, children : {FALSE}, template : {"None"},
          position : {FALSE}]
    \cup [parent_id : {<<>>}, parent_type : {"database_id"},
          is_data_source_parent : {"None"}, children : {FALSE}, template : {"None"},
          position : {FALSE}]

\* the type of payload["parent"] that create_page builds, "invalid" when
\* parent_type is rejected
ParentOf(a) ==
    IF a.is_data_source_parent # "None"
    THEN IF a.is_data_source_parent = "True" THEN "data_source_id" ELSE "page_id"
    ELSE IF a.parent_id # <<>>
         THEN LET parent_type == IF a.parent_type = "None" THEN "page_id"
                                 ELSE a.parent_type
              IN IF parent_type \notin {"page_id", "data_source_id", "workspace"}
                 THEN "invalid"
                 ELSE parent_type
         ELSE "workspace"

\* create_page raises NotionValidationError before any request
Rejected(a) ==
    \/ ParentOf(a) = "invalid"
    \/ a.children /\ a.template \notin {"None", "none"}
    \/ a.position /\ ParentOf(a) # "page_id"

CreatePage(a) ==
    IF Rejected(a)
    THEN /\ Done([NoLast EXCEPT !.op = "create_page", !.id = a.parent_id,
                                !.raised = "NotionValidationError"])
         /\ UNCHANGED <<caches, cache_stats, lookups, remote>>
    ELSE \E o \in Outcomes :
            Written("create_page", a.parent_id, "page", o,
                    IF a.parent_id # <<>> /\ ParentOf(a) # "workspace"
                    THEN Bump(remote, a.parent_id) ELSE remote,
                    IF a.parent_id # <<>>
                    THEN InvalidateCache(Current, a.parent_id, "all") ELSE Current)

----------------------------------------------------------------------------
(* Cache maintenance and observation *)

\* resource_type arguments of a direct _invalidate_cache call
Scopes == {"page", "block", "database", "data_source", "all", "databases", "data_sources"}

Invalidate(resource_id, resource_type) ==
    LET c == InvalidateCache(Current, resource_id, resource_type)
    IN /\ Done([NoLast EXCEPT !.op = "_invalidate_cache", !.id = resource_id,
                              !.scope = resource_type, !.deleted = c.deleted])
       /\ Becomes(c)
       /\ UNCHANGED <<lookups, remote>>

\* cache_type arguments of clear_cache; "None" stands for no argument
ClearTypes == {"pages", "blocks", "databases", "data_sources", "all", "None", "page"}

\* clear_cache emptying every cache whatever cache_type names
ClearCacheEverything(cache_type) ==
    /\ Done([NoLast EXCEPT !.op = "clear_cache", !.scope = cache_type])
    /\ IF ~enable_caching \/ ~has_cache
       THEN UNCHANGED caches
       ELSE /\ page_cache' = <<>>
            /\ blocks_cache' = <<>>
            /\ db_cache' = <<>>
            /\ data_source_cache' = <<>>
    /\ UNCHANGED <<cache_stats, lookups, remote>>

ClearCache(cache_type) ==
    /\ Done([NoLast EXCEPT !.op = "clear_cache", !.scope = cache_type])
    /\ IF ~enable_caching \/ ~has_cache
       THEN UNCHANGED caches
       ELSE /\ page_cache' = IF cache_type \in {"pages", "all", "None"}
                             THEN <<>> ELSE page_cache
            /\ blocks_cache' = IF cache_type \in {"blocks", "all", "None"}
                               THEN <<>> ELSE blocks_cache
            /\ db_cache' = IF cache_type \in {"databases", "all", "None"}
                           THEN <<>> ELSE db_cache
            /\ data_source_cache' = IF cache_type \in {"data_sources", "all", "None"}
                                    THEN <<>> ELSE data_source_cache
    /\ UNCHANGED <<cache_stats, lookups, remote>>

GetCacheStats ==
    /\ Done([NoLast EXCEPT
             !.op = "get_cache_stats",
             !.raised = IF enable_caching /\ ~has_cache THEN "TypeError" ELSE "none",
             !.stats = IF ~enable_caching
                       THEN [NoStats EXCEPT !.fields = {"enabled"}]
                       ELSE IF ~has_cache THEN NoStats
                       ELSE [fields |-> {"enabled", "hits", "misses", "invalidations",
                                         "total_requests", "hit_rate_percent",
                                         "cache_sizes"},
                             enabled |-> TRUE,
                             hits |-> cache_stats.hits,
                             misses |-> cache_stats.misses,
                             invalidations |-> cache_stats.invalidations,
                             total_requests |-> cache_stats.hits + cache_stats.misses,
                             pages |-> Size(page_cache, now),
                             blocks |-> Size(blocks_cache, now),
                             databases |-> Size(db_cache, now),
                             data_sources |-> Size(data_source_cache, now)]])
    /\ UNCHANGED <<caches, cache_stats, lookups, remote>>

----------------------------------------------------------------------------
(* The client used by one caller *)

Next ==
    \/ \E id \in Ids, o \in Outcomes : GetPage(id, o)
    \/ \E id \in Ids, o \in Outcomes : GetDatabase(id, o)
    \/ \E id \in Ids, o \in Outcomes : GetDataSource(id, o)
    \/ \E id \in Ids, ps \in PageSizes, o \in Outcomes : GetBlockChildren(id, ps, o)
    \/ \E id \in Ids, o \in Outcomes : GetBlock(id, o)
    \/ \E id \in Ids, o \in Outcomes : UpdatePage(id, o)
    \/ \E id \in Ids, o \in Outcomes : UpdateDatabase(id, o)
    \/ \E id \in Ids, parent \in Ids \cup {<<>>}, o \in Outcomes :
          UpdateDataSource(id, parent, o)
    \/ \E id \in Ids, o \in Outcomes : AppendBlockChildren(id, o)
    \/ \E id \in Ids, o \in Outcomes : UpdateBlock(id, o)
    \/ \E id \in Ids, o \in Outcomes : DeleteBlock(id, o)
    \/ \E id \in Ids, o \in Outcomes : CreateDatabase(id, o)
    \/ \E a \in CreatePageArgs : CreatePage(a)
    \/ \E t \in ClearTypes : ClearCache(t)
    \/ GetCacheStats

Spec == Init /\ [][Next]_vars

SpecDisabled == InitDisabled /\ [][Next]_vars

----------------------------------------------------------------------------
(* The invalidation router called on filled caches *)

\* the reads that can have filled a cache keyed by id, and the blocks cache
IdReads == [i \in 1..Len(IdSeq) |-> [id |-> IdSeq[i], ps |-> 0]]

\* two page sizes of one id, and an id that the other is a prefix of
BlockReads ==
    << [id |-> IdSeq[1], ps |-> PageSizeSeq[1]],
       [id |-> IdSeq[1], ps |-> PageSizeSeq[2]],
       [id |-> IdSeq[2], ps |-> PageSizeSeq[2]] >>

KeyOf(obj, r) == IF obj = "list" THEN CacheKey(r.id, r.ps) ELSE r.id

RECURSIVE Filled(_, _, _, _, _, _, _, _)
\* cache c after the reads i.. of reads that f marks with when were answered
\* 200 at time t and stored
Filled(c, reads, f, when, t, ttl, obj, i) ==
    IF i > Len(reads) THEN c
    ELSE LET r == reads[i]
             c1 == IF f[i] = when
                   THEN SetItem(c, t, KeyOf(obj, r),
                                At(Resp(200, obj, r.id, r.ps, 0), t),
                                ttl, cache_max_size)
                   ELSE c
         IN Filled(c1, reads, f, when, t, ttl, obj, i + 1)

\* a cache filled by reads at time 0 and, later, by reads at time t
FilledAt(reads, f, t, ttl, obj) ==
    Filled(Filled(<<>>, reads, f, "early", 0, ttl, obj, 1),
           reads, f, "late", t, ttl, obj, 1)

Stores(f) == Cardinality({i \in DOMAIN f : f[i] # "no"})

InitRouter ==
    /\ NoCallers
    /\ enable_caching = TRUE
    /\ has_cache = TRUE
    /\ \E t \in 0..MaxTime,
          fp \in [DOMAIN IdReads -> {"no", "early"}],
          fb \in [DOMAIN BlockReads -> {"no", "early", "late"}],
          fd \in [DOMAIN IdReads -> {"no", "early"}],
          fs \in [DOMAIN IdReads -> {"no", "early"}] :
          /\ now = t
          /\ page_cache = FilledAt(IdReads, fp, t, cache_ttl_pages, "page")
          /\ blocks_cache = FilledAt(BlockReads, fb, t, cache_ttl_blocks, "list")
          /\ db_cache = FilledAt(IdReads, fd, t, cache_ttl_databases, "database")
          /\ data_source_cache =
                FilledAt(IdReads, fs, t, cache_ttl_data_sources, "data_source")
          /\ lookups = Stores(fp) + Stores(fb) + Stores(fd) + Stores(fs)
          /\ cache_stats = [hits |-> 0, misses |-> lookups, invalidations |-> 0]
    /\ remote = [i \in Ids |-> 0]
    /\ nops = 0
    /\ last = NoLast
    /\ prev = NoPrev

NextRouter ==
    /\ nops < MaxCalls
    /\ \/ \E id \in Ids, scope \in Scopes : Invalidate(id, scope)
       \/ GetCacheStats

SpecRouter == InitRouter /\ [][NextRouter]_vars

----------------------------------------------------------------------------
(* Operations whose remote call has any transport outcome *)

NextRequest ==
    \/ \E id \in Ids, o \in Transport : nops < MaxCalls /\ GetPage(id, o)
    \/ \E id \in Ids, o \in Transport : nops < MaxCalls /\ GetDatabase(id, o)
    \/ \E id \in Ids, o \in Transport : nops < MaxCalls /\ GetDataSource(id, o)
    \/ \E id \in Ids, ps \in PageSizes, o \in Transport :
          nops < MaxCalls /\ GetBlockChildren(id, ps, o)
    \/ \E id \in Ids, o \in Transport : nops < MaxCalls /\ GetBlock(id, o)
    \/ \E id \in Ids, o \in Transport : nops < MaxCalls /\ UpdatePage(id, o)
    \/ \E id \in Ids, o \in Transport : nops < MaxCalls /\ UpdateDatabase(id, o)
    \/ \E id \in Ids, o \in Transport : nops < MaxCalls /\ DeleteBlock(id, o)

SpecRequest == Init /\ [][NextRequest]_vars

----------------------------------------------------------------------------
(* get_page called by several threads at the same time *)

\* thread t is at position p of get_page
ThreadAt(t, p) == thread_pc[t] = p

\* thread t enters get_page(page_id) and _get_from_cache; with caching off
\* or no cache the lookup returns None without counting
GetPageCall(t, page_id) ==
    /\ ThreadAt(t, "idle")
    /\ lookups < MaxLookups
    /\ lookups' = lookups + 1
    /\ local' = [local EXCEPT ![t] = [NoLocal EXCEPT !.op = "get_page",
                                                     !.page_id = page_id]]
    /\ thread_pc' = [thread_pc EXCEPT
                        ![t] = IF ~enable_caching \/ ~has_cache THEN "request"
                               ELSE "acquire"]
    /\ UNCHANGED <<config, caches, cache_stats, now, remote, nops, last, prev, lock>>

\* with self._cache_lock: entered
LockAcquire(t) ==
    /\ ThreadAt(t, "acquire")
    /\ lock = 0
    /\ lock' = t
    /\ thread_pc' = [thread_pc EXCEPT ![t] = "locked"]
    /\ UNCHANGED <<config, caches, cache_stats, now, remote, nops, lookups, last,
                   prev, local>>

\* the with block stretched over the rest of get_page: a miss keeps the lock
LockedLookupKeepsLock(t) ==
    LET key == local[t].page_id
    IN /\ ThreadAt(t, "locked")
       /\ IF Contains(page_cache, now, key)
          THEN /\ lock' = 0
               /\ cache_stats' = [cache_stats EXCEPT !.hits = @ + 1]
               /\ page_cache' = Touch(page_cache, now, key)
               /\ thread_pc' = [thread_pc EXCEPT ![t] = "idle"]
               /\ local' = [local EXCEPT ![t].data = Lookup(page_cache, now, key),
                                         ![t].hit = TRUE]
          ELSE /\ thread_pc' = [thread_pc EXCEPT ![t] = "load_misses"]
               /\ UNCHANGED <<page_cache, cache_stats, local, lock>>
       /\ UNCHANGED <<config, blocks_cache, db_cache, data_source_cache, now, remote,
                      nops, lookups, last, prev>>

\* the body of the with block: a hit is counted and returned from inside
\* it, a miss falls out of it; both release the lock
LockedLookup(t) ==
    LET key == local[t].page_id
    IN /\ ThreadAt(t, "locked")
       /\ lock' = 0
       /\ IF Contains(page_cache, now, key)
          THEN /\ cache_stats' = [cache_stats EXCEPT !.hits = @ + 1]
               /\ page_cache' = Touch(page_cache, now, key)
               /\ thread_pc' = [thread_pc EXCEPT ![t] = "idle"]
               /\ local' = [local EXCEPT ![t].data = Lookup(page_cache, now, key),
                                         ![t].hit = TRUE]
          ELSE /\ thread_pc' = [thread_pc EXCEPT ![t] = "load_misses"]
               /\ UNCHANGED <<page_cache, cache_stats, local>>
       /\ UNCHANGED <<config, blocks_cache, db_cache, data_source_cache, now, remote,
                      nops, lookups, last, prev>>

\* self._cache_stats["misses"] += 1, first half: the counter is read
MissesLoad(t) ==
    /\ ThreadAt(t, "load_misses")
    /\ local' = [local EXCEPT ![t].misses = cache_stats.misses]
    /\ thread_pc' = [thread_pc EXCEPT ![t] = "store_misses"]
    /\ UNCHANGED <<config, caches, cache_stats, now, remote, nops, lookups, last,
                   prev, lock>>

\* self._cache_stats["misses"] += 1, second half: the sum is written
MissesStore(t) ==
    /\ ThreadAt(t, "store_misses")
    /\ cache_stats' = [cache_stats EXCEPT !.misses = local[t].misses + 1]
    /\ local' = [local EXCEPT ![t].misses = 0]
    /\ thread_pc' = [thread_pc EXCEPT ![t] = "request"]
    /\ UNCHANGED <<config, caches, now, remote, nops, lookups, last, prev, lock>>

\* self._request("GET", f"pages/{page_id}") answered with outcome o
GetPageRequest(t, o) ==
    LET page_id == local[t].page_id
        result == Request(o, At(Resp(o.status, "page", page_id, 0, remote[page_id]), now))
    IN /\ ThreadAt(t, "request")
       /\ IF result.raised = "none"
          THEN /\ thread_pc' = [thread_pc EXCEPT ![t] = "store"]
               /\ local' = [local EXCEPT ![t].data = result.data,
                                         ![t].calls = @ + RequestCalls(o)]
          ELSE /\ thread_pc' = [thread_pc EXCEPT ![t] = "idle"]
               /\ local' = [local EXCEPT ![t].calls = @ + RequestCalls(o)]
       /\ UNCHANGED <<config, caches, cache_stats, now, remote, nops, lookups, last,
                      prev, lock>>

\* a store that keeps the entry another thread has stored meanwhile
GetPageStoreKeepsFirst(t) ==
    /\ ThreadAt(t, "store")
    /\ lock = 0
    /\ page_cache' = IF Contains(page_cache, now, local[t].page_id)
                     THEN page_cache
                     ELSE StoreInCache(page_cache, local[t].page_id, local[t].data,
                                       cache_ttl_pages)
    /\ thread_pc' = [thread_pc EXCEPT ![t] = "idle"]
    /\ UNCHANGED <<config, blocks_cache, db_cache, data_source_cache, cache_stats,
                   now, remote, nops, lookups, last, prev, lock, local>>

\* a store that drops a response older than the remote page
GetPageStoreDropsLate(t) ==
    /\ ThreadAt(t, "store")
    /\ lock = 0
    /\ page_cache' = IF local[t].data.rev < remote[local[t].page_id]
                     THEN page_cache
                     ELSE StoreInCache(page_cache, local[t].page_id, local[t].data,
                                       cache_ttl_pages)
    /\ thread_pc' = [thread_pc EXCEPT ![t] = "idle"]
    /\ UNCHANGED <<config, blocks_cache, db_cache, data_source_cache, cache_stats,
                   now, remote, nops, lookups, last, prev, lock, local>>

\* _store_in_cache: the lock is taken, the response stored and the lock
\* released, then get_page returns
GetPageStore(t) ==
    /\ ThreadAt(t, "store")
    /\ lock = 0
    /\ page_cache' = StoreInCache(page_cache, local[t].page_id, local[t].data,
                                  cache_ttl_pages)
    /\ thread_pc' = [thread_pc EXCEPT ![t] = "idle"]
    /\ UNCHANGED <<config, blocks_cache, db_cache, data_source_cache, cache_stats,
                   now, remote, nops, lookups, last, prev, lock, local>>

\* thread t enters update_page(page_id)
UpdatePageCall(t, page_id) ==
    /\ ThreadAt(t, "idle")
    /\ nops < MaxWrites
    /\ nops' = nops + 1
    /\ local' = [local EXCEPT ![t] = [NoLocal EXCEPT !.op = "update_page",
                                                     !.page_id = page_id]]
    /\ thread_pc' = [thread_pc EXCEPT ![t] = "write_request"]
    /\ UNCHANGED <<config, caches, cache_stats, now, remote, lookups, last, prev, lock>>

\* self._request("PATCH", f"pages/{page_id}", ...) answered with outcome o
UpdatePageRequest(t, o) ==
    LET page_id == local[t].page_id
        after == IF Applied(o) THEN Bump(remote, page_id) ELSE remote
        result == Request(o, At(Resp(o.status, "page", page_id, 0, after[page_id]), now))
    IN /\ ThreadAt(t, "write_request")
       /\ remote' = after
       /\ IF result.raised = "none"
          THEN /\ thread_pc' = [thread_pc EXCEPT ![t] = "invalidate"]
               /\ local' = [local EXCEPT ![t].data = result.data,
                                         ![t].calls = @ + RequestCalls(o)]
          ELSE /\ thread_pc' = [thread_pc EXCEPT ![t] = "idle"]
               /\ local' = [local EXCEPT ![t].calls = @ + RequestCalls(o)]
       /\ UNCHANGED <<config, caches, cache_stats, now, nops, lookups, last, prev, lock>>

\* self._invalidate_cache(page_id, "all"): the lock is taken, the entries
\* deleted and counted and the lock released, then update_page returns
UpdatePageInvalidate(t) ==
    /\ ThreadAt(t, "invalidate")
    /\ lock = 0
    /\ Becomes(InvalidateCache(Current, local[t].page_id, "all"))
    /\ thread_pc' = [thread_pc EXCEPT ![t] = "idle"]
    /\ UNCHANGED <<config, now, remote, nops, lookups, last, prev, lock, local>>

NextThreads ==
    \/ \E t \in Threads, page_id \in Ids : GetPageCall(t, page_id)
    \/ \E t \in Threads : LockAcquire(t)
    \/ \E t \in Threads : LockedLookup(t)
    \/ \E t \in Threads : MissesLoad(t)
    \/ \E t \in Threads : MissesStore(t)
    \/ \E t \in Threads, o \in Outcomes : GetPageRequest(t, o)
    \/ \E t \in Threads : GetPageStore(t)
    \/ \E t \in Threads, page_id \in Ids : UpdatePageCall(t, page_id)
    \/ \E t \in Threads, o \in Outcomes : UpdatePageRequest(t, o)
    \/ \E t \in Threads : UpdatePageInvalidate(t)

\* one get_page of the second id has missed, been answered 200 and stored
\* before the threads start
InitThreads ==
    /\ NoCallers
    /\ enable_caching = TRUE
    /\ has_cache = TRUE
    /\ now = 0
    /\ page_cache = FilledAt(IdReads, [i \in DOMAIN IdReads |->
                                         IF i = 2 THEN "early" ELSE "no"],
                             0, cache_ttl_pages, "page")
    /\ blocks_cache = <<>>
    /\ db_cache = <<>>
    /\ data_source_cache = <<>>
    /\ lookups = 1
    /\ cache_stats = [hits |-> 0, misses |-> 1, invalidations |-> 0]
    /\ remote = [i \in Ids |-> 0]
    /\ nops = 0
    /\ last = NoLast
    /\ prev = NoPrev

SpecThreads == InitThreads /\ [][NextThreads]_vars

----------------------------------------------------------------------------
(* Reads while the caches' timer runs *)

\* the timer that TTLCache reads (time.monotonic) has advanced
Tick ==
    /\ now < MaxTime
    /\ now' = now + 1
    /\ UNCHANGED <<enable_caching, has_cache, caches, cache_stats, remote, nops,
                   lookups, last, prev, threads>>

NextTTL ==
    \/ Tick
    \/ \E id \in Ids, o \in Outcomes : nops < MaxReads /\ GetPage(id, o)
    \/ \E id \in Ids, o \in Outcomes : nops < MaxReads /\ GetDatabase(id, o)
    \/ \E id \in Ids, o \in Outcomes : nops < MaxReads /\ GetDataSource(id, o)
    \/ \E id \in Ids, ps \in PageSizes, o \in Outcomes :
          nops < MaxReads /\ GetBlockChildren(id, ps, o)

SpecTTL == Init /\ [][NextTTL]_vars

----------------------------------------------------------------------------
(* Operations on caches that earlier reads have filled to capacity *)

\* every read of reads has been answered 200 and stored
AllOf(reads) == [i \in DOMAIN reads |-> "early"]

InitFull ==
    /\ NoCallers
    /\ enable_caching = TRUE
    /\ has_cache = TRUE
    /\ now = 0
    /\ page_cache = FilledAt(IdReads, AllOf(IdReads), 0, cache_ttl_pages, "page")
    /\ blocks_cache = FilledAt(BlockReads, AllOf(BlockReads), 0, cache_ttl_blocks, "list")
    /\ db_cache = FilledAt(IdReads, AllOf(IdReads), 0, cache_ttl_databases, "database")
    /\ data_source_cache =
          FilledAt(IdReads, AllOf(IdReads), 0, cache_ttl_data_sources, "data_source")
    /\ lookups = 3 * Len(IdReads) + Len(BlockReads)
    /\ cache_stats = [hits |-> 0, misses |-> lookups, invalidations |-> 0]
    /\ remote = [i \in Ids |-> 0]
    /\ nops = 0
    /\ last = NoLast
    /\ prev = NoPrev

NextFull ==
    \/ \E id \in Ids, o \in Outcomes : nops < MaxReads /\ GetPage(id, o)
    \/ \E id \in Ids, o \in Outcomes : nops < MaxReads /\ GetDatabase(id, o)
    \/ \E id \in Ids, o \in Outcomes : nops < MaxReads /\ GetDataSource(id, o)
    \/ \E id \in Ids, ps \in PageSizes, o \in Outcomes :
          nops < MaxReads /\ GetBlockChildren(id, ps, o)
    \/ \E id \in Ids, o \in Outcomes : nops < MaxReads /\ UpdatePage(id, o)
    \/ \E id \in Ids, o \in Outcomes : nops < MaxReads /\ UpdateDatabase(id, o)
    \/ \E id \in Ids, o \in Outcomes : nops < MaxReads /\ AppendBlockChildren(id, o)
    \/ \E t \in ClearTypes : nops < MaxReads /\ ClearCache(t)

SpecFull == InitFull /\ [][NextFull]_vars

----------------------------------------------------------------------------
(* Properties *)

CachedReads == {"get_page", "get_database", "get_data_source", "get_block_children"}

AllCaches == {"pages", "blocks", "databases", "data_sources"}

\* the cache a cached read works on, among the four given
CacheOf(op, pc, bc, dc, sc) ==
    CASE op = "get_page" -> pc
      [] op = "get_block_children" -> bc
      [] op = "get_database" -> dc
      [] op = "get_data_source" -> sc

\* the key under which read l looks its result up
KeyFor(l) == IF l.op = "get_block_children" THEN l.id \o <<":">> \o Str(l.ps) ELSE l.id

\* k is x followed by ":" and anything
HasIdPrefix(k, x) ==
    /\ Len(k) > Len(x)
    /\ \A i \in 1..Len(x) : k[i] = x[i]
    /\ k[Len(x) + 1] = ":"

\* k is a blocks-cache key of id x
KeyOfId(k, x) == k = x \/ HasIdPrefix(k, x)

RECURSIVE Dropping(_, _, _)
\* cache c without its entries that are live at t and keyed by a key of ks
Dropping(c, t, ks) ==
    IF c = <<>> THEN <<>>
    ELSE IF t < Head(c).expires /\ Head(c).key \in ks
         THEN Dropping(Tail(c), t, ks)
         ELSE <<Head(c)>> \o Dropping(Tail(c), t, ks)

\* C1: with caching enabled, a read of X that follows a returned write to X
\* (get_page after update_page, get_database after update_database,
\* get_block_children after append_block_children, update_block or
\* delete_block) is a miss that goes to the remote service, and what it
\* returns is the remote state after the write
C1_WriteThenReadIsFresh ==
    (/\ has_cache
     /\ prev.returned
     /\ <<prev.op, last.op>> \in
           {<<"update_page", "get_page">>,
            <<"update_database", "get_database">>,
            <<"append_block_children", "get_block_children">>,
            <<"update_block", "get_block_children">>,
            <<"delete_block", "get_block_children">>})
    => /\ last.calls = 1
       /\ ~last.hit
       /\ last.raised = "none" => /\ last.ret.rev = remote[last.id]
                                  /\ last.ret.rev >= 1

\* get_page(X) has gone remote after an update_page(X) that deleted X's
\* page-cache entry
C1_Witness ==
    /\ has_cache
    /\ prev.op = "update_page"
    /\ prev.returned
    /\ "pages" \in prev.deleted
    /\ last.op = "get_page"
    /\ last.calls = 1
    /\ last.raised = "none"
    /\ last.ret.rev = 1

\* C2: with caching enabled, a get_data_source(X) that follows a returned
\* update_data_source(X) is a miss that goes to the remote service and
\* returns the schema after the update
C2_UpdateDataSourceThenReadIsFresh ==
    (/\ has_cache
     /\ prev.op = "update_data_source"
     /\ prev.returned
     /\ last.op = "get_data_source")
    => /\ last.calls = 1
       /\ ~last.hit
       /\ last.raised = "none" => last.ret.rev = remote[last.id]

\* C3: after _invalidate_cache(X, "all") X is a live key of none of the page,
\* database and data-source caches, and no live blocks-cache key is X or X
\* followed by ":" and anything
C3_AllScopeRemovesEverywhere ==
    (last.op = "_invalidate_cache" /\ last.scope = "all")
    => /\ last.id \notin Keys(page_cache, now)
       /\ last.id \notin Keys(db_cache, now)
       /\ last.id \notin Keys(data_source_cache, now)
       /\ \A k \in Keys(blocks_cache, now) : ~KeyOfId(k, last.id)

\* _invalidate_cache(X, "all") has deleted X from all four caches
C3_Witness ==
    /\ last.op = "_invalidate_cache"
    /\ last.scope = "all"
    /\ last.deleted = AllCaches

\* C4: _invalidate_cache(X, scope) with scope page, database or data_source
\* deletes the live entry keyed X from that cache and changes nothing else
\* in the four caches; with scope block the other three caches are
\* unchanged; with scope all, X in the page cache and a "X:..." key in the
\* blocks cache, X is gone from both
C4_NarrowScopeStep ==
    LET l == last'
        x == l.id
    IN l.op = "_invalidate_cache" =>
       /\ l.scope = "page" =>
             /\ page_cache' = Dropping(page_cache, now, {x})
             /\ UNCHANGED <<blocks_cache, db_cache, data_source_cache>>
       /\ l.scope = "database" =>
             /\ db_cache' = Dropping(db_cache, now, {x})
             /\ UNCHANGED <<page_cache, blocks_cache, data_source_cache>>
       /\ l.scope = "data_source" =>
             /\ data_source_cache' = Dropping(data_source_cache, now, {x})
             /\ UNCHANGED <<page_cache, blocks_cache, db_cache>>
       /\ l.scope = "block" =>
             /\ \A k \in Keys(blocks_cache', now') : ~KeyOfId(k, x)
             /\ UNCHANGED <<page_cache, db_cache, data_source_cache>>
       /\ (/\ l.scope = "all"
           /\ x \in Keys(page_cache, now)
           /\ \E k \in Keys(blocks_cache, now) : HasIdPrefix(k, x))
          => /\ x \notin Keys(page_cache', now')
             /\ \A k \in Keys(blocks_cache', now') : ~KeyOfId(k, x)
             /\ {"pages", "blocks"} \subseteq l.deleted

C4_NarrowScope == [][C4_NarrowScopeStep]_vars

\* _invalidate_cache(X, "page") has deleted X from the page cache while the
\* other three caches still hold X
C4_Witness ==
    /\ last.op = "_invalidate_cache"
    /\ last.scope = "page"
    /\ last.deleted = {"pages"}
    /\ last.id \in Keys(db_cache, now)
    /\ last.id \in Keys(data_source_cache, now)
    /\ \E k \in Keys(blocks_cache, now) : HasIdPrefix(k, last.id)

\* C5: _invalidate_cache(X, scope) with scope block or all deletes from the
\* blocks cache exactly the live entries whose key is X or X followed by ":"
\* and anything; every other entry stays in place with its value
C5_CompositeKeyStep ==
    LET l == last'
        ks == {blocks_cache[i].key : i \in 1..Len(blocks_cache)}
    IN (l.op = "_invalidate_cache" /\ l.scope \in {"block", "all"})
       => blocks_cache' =
             Dropping(blocks_cache, now, {k \in ks : KeyOfId(k, l.id)})

C5_CompositeKey == [][C5_CompositeKeyStep]_vars

\* _invalidate_cache("a", "block") has deleted "a:50" and left "ab:50"
C5_Witness ==
    /\ last.op = "_invalidate_cache"
    /\ last.scope = "block"
    /\ last.id = <<"a">>
    /\ last.deleted = {"blocks"}
    /\ <<"a", "b", ":", "5", "0">> \in Keys(blocks_cache, now)
    /\ <<"a", ":", "5", "0">> \notin Keys(blocks_cache, now)

\* C6: with caching enabled, a cached read whose key is live returns the
\* cached value without a remote call and leaves the cache's entries as they
\* are; on a miss it makes one remote call and, when that returns, the
\* response is stored under the same key and returned; the same read
\* performed again right after a read that returned makes no remote call
C6_ReadThroughStep ==
    LET l == last'
        key == KeyFor(l)
        before == CacheOf(l.op, page_cache, blocks_cache, db_cache, data_source_cache)
        after == CacheOf(l.op, page_cache', blocks_cache', db_cache', data_source_cache')
    IN (has_cache /\ l.op \in CachedReads) =>
       /\ IF key \in Keys(before, now)
          THEN /\ l.calls = 0
               /\ l.raised = "none"
               /\ \E i \in 1..Len(before) :
                     before[i].key = key /\ before[i].value = l.ret
               /\ Len(after) = Len(before)
               /\ {after[i] : i \in 1..Len(after)} = {before[i] : i \in 1..Len(before)}
          ELSE /\ l.calls = 1
               /\ l.raised = "none" =>
                     /\ l.ret.rev = remote[l.id]
                     /\ \E i \in 1..Len(after) :
                           /\ after[i].key = key
                           /\ after[i].value = l.ret
                           /\ now' < after[i].expires
       /\ (prev'.op = l.op /\ prev'.returned) => l.calls = 0

C6_ReadThrough == [][C6_ReadThroughStep]_vars

\* get_database(X) has been answered from the cache right after a
\* get_database(X) that returned
C6_Witness ==
    /\ has_cache
    /\ prev.op = "get_database"
    /\ prev.returned
    /\ last.op = "get_database"
    /\ last.hit
    /\ last.calls = 0

\* C7: an operation that raises leaves the four caches as they were; a
\* cached read of X that follows a failed write to X while X's entry is
\* cached is a hit that returns that entry
C7_FailureStep ==
    LET l == last'
        key == KeyFor(l)
        before == CacheOf(l.op, page_cache, blocks_cache, db_cache, data_source_cache)
    IN /\ l.raised # "none" => UNCHANGED caches
       /\ (/\ has_cache
           /\ l.op \in CachedReads
           /\ prev'.op \in WriteOps
           /\ ~prev'.returned
           /\ key \in Keys(before, now))
          => /\ l.hit
             /\ l.calls = 0
             /\ \E i \in 1..Len(before) :
                   before[i].key = key /\ before[i].value = l.ret

C7_FailureLeavesCaches == [][C7_FailureStep]_vars

\* get_page(X) has been answered from the cache right after an update_page(X)
\* whose remote call failed
C7_Witness ==
    /\ has_cache
    /\ prev.op = "update_page"
    /\ ~prev.returned
    /\ last.op = "get_page"
    /\ last.hit
    /\ last.calls = 0

\* C8: an _invalidate_cache call adds one to the invalidations counter when
\* it deleted an entry from some cache, however many, and nothing when it
\* deleted none; it leaves hits and misses alone
C8_InvalidationsStep ==
    last'.op = "_invalidate_cache" =>
       /\ cache_stats'.invalidations =
             cache_stats.invalidations + (IF caches' # caches THEN 1 ELSE 0)
       /\ cache_stats'.hits = cache_stats.hits
       /\ cache_stats'.misses = cache_stats.misses

C8_Invalidations == [][C8_InvalidationsStep]_vars

\* one _invalidate_cache call has deleted from several caches and counted once
C8_Witness ==
    /\ last.op = "_invalidate_cache"
    /\ Cardinality(last.deleted) >= 2
    /\ cache_stats.invalidations = 1

\* C9: with caching enabled, hits + misses is the number of _get_from_cache
\* calls made, and each call adds one to hits when its key is live and one
\* to misses otherwise, and nothing to the other counter
C9_LookupStep ==
    LET l == last'
        key == KeyFor(l)
        before == CacheOf(l.op, page_cache, blocks_cache, db_cache, data_source_cache)
    IN has_cache =>
       IF l.op \in CachedReads
       THEN /\ lookups' = lookups + 1
            /\ IF key \in Keys(before, now)
               THEN /\ cache_stats'.hits = cache_stats.hits + 1
                    /\ cache_stats'.misses = cache_stats.misses
               ELSE /\ cache_stats'.hits = cache_stats.hits
                    /\ cache_stats'.misses = cache_stats.misses + 1
       ELSE /\ lookups' = lookups
            /\ cache_stats'.hits = cache_stats.hits
            /\ cache_stats'.misses = cache_stats.misses

C9_HitsPlusMisses ==
    /\ [](has_cache => cache_stats.hits + cache_stats.misses = lookups)
    /\ [][C9_LookupStep]_vars

\* lookups have been counted as hits and as misses
C9_Witness ==
    /\ has_cache
    /\ cache_stats.hits >= 1
    /\ cache_stats.misses >= 2
    /\ lookups = 3

\* C10: with caching disabled by configuration no cache ever holds an entry,
\* no counter is ever counted, every read goes to the remote service, and
\* get_cache_stats returns the dict with the only key enabled, which is False
C10_DisabledIsNoOp ==
    ~enable_caching =>
       /\ page_cache = <<>>
       /\ blocks_cache = <<>>
       /\ db_cache = <<>>
       /\ data_source_cache = <<>>
       /\ cache_stats = [hits |-> 0, misses |-> 0, invalidations |-> 0]
       /\ last.op \in ReadOps => last.calls = 1 /\ ~last.hit
       /\ last.op = "get_cache_stats" =>
             /\ last.raised = "none"
             /\ last.stats.fields = {"enabled"}
             /\ last.stats.enabled = FALSE

\* with caching disabled, get_page(X) has gone remote right after a
\* get_page(X) that returned
C10_Witness ==
    /\ ~enable_caching
    /\ prev.op = "get_page"
    /\ prev.returned
    /\ last.op = "get_page"
    /\ last.calls = 1
    /\ last.raised = "none"

\* the configured time to live of the cache a cached read works on
TTLOf(op) ==
    CASE op = "get_page" -> cache_ttl_pages
      [] op = "get_block_children" -> cache_ttl_blocks
      [] op = "get_database" -> cache_ttl_databases
      [] op = "get_data_source" -> cache_ttl_data_sources

\* C11: a cached read whose key was stored with a response answered at least
\* the cache's TTL ago is a miss, counted in misses and not in hits, and
\* makes one remote call whose response, if any, is the one it returns; a
\* read that is a hit returns a response answered less than the TTL ago
C11_ExpiryStep ==
    LET l == last'
        key == KeyFor(l)
        before == CacheOf(l.op, page_cache, blocks_cache, db_cache, data_source_cache)
    IN (nops' = nops + 1 /\ l.op \in CachedReads) =>
       /\ (\E i \in 1..Len(before) :
              /\ before[i].key = key
              /\ before[i].value.at + TTLOf(l.op) <= now)
          => /\ ~l.hit
             /\ l.calls = 1
             /\ cache_stats'.misses = cache_stats.misses + 1
             /\ cache_stats'.hits = cache_stats.hits
             /\ l.raised = "none" => l.ret.at = now
       /\ l.hit => now - l.ret.at < TTLOf(l.op)
       /\ l.raised = "none" => l.ret.at <= now

C11_ExpiredIsMiss == [][C11_ExpiryStep]_vars

\* get_database(X) has gone remote once the entry that the get_database(X)
\* before it stored was as old as the databases TTL
C11_Witness ==
    /\ prev.op = "get_database"
    /\ prev.returned
    /\ last.op = "get_database"
    /\ ~last.hit
    /\ last.calls = 1
    /\ last.raised = "none"
    /\ last.ret.at = cache_ttl_databases
    /\ cache_stats.misses = 2
    /\ cache_stats.hits = 0

\* the live keys of cache c in the order BlockReads were stored, oldest first
FirstStored(c) ==
    LET live == {i \in 1..Len(BlockReads) : KeyOf("list", BlockReads[i]) \in Keys(c, now)}
    IN KeyOf("list", BlockReads[CHOOSE i \in live : \A j \in live : i <= j])

\* C12: each cache holds at most cache_max_size live entries; a cached read
\* changes no cache but its own; a read that stores a new key into its full
\* cache removes exactly one key of that cache, which is the oldest when no
\* key has been used since the caches were filled, and never the key that
\* the operation before it read
C12_CapacityStep ==
    LET l == last'
        key == KeyFor(l)
        before == CacheOf(l.op, page_cache, blocks_cache, db_cache, data_source_cache)
        after == CacheOf(l.op, page_cache', blocks_cache', db_cache', data_source_cache')
        kb == Keys(before, now)
        ka == Keys(after, now')
    IN (nops' = nops + 1 /\ l.op \in CachedReads) =>
       /\ l.op # "get_page" => page_cache' = page_cache
       /\ l.op # "get_block_children" => blocks_cache' = blocks_cache
       /\ l.op # "get_database" => db_cache' = db_cache
       /\ l.op # "get_data_source" => data_source_cache' = data_source_cache
       /\ (/\ l.calls = 1
           /\ l.raised = "none"
           /\ Cardinality(kb) = cache_max_size)
          => /\ key \in ka
             /\ Cardinality(ka) = cache_max_size
             /\ Cardinality(kb \ ka) = 1
             /\ ka \ kb = {key}
             /\ (nops = 0 /\ l.op = "get_block_children")
                   => kb \ ka = {FirstStored(before)}
             /\ (/\ last.op = l.op
                 /\ last.raised = "none"
                 /\ cache_max_size >= 2)
                => KeyFor(last) \in ka

C12_Capacity ==
    /\ [](/\ Size(page_cache, now) <= cache_max_size
          /\ Size(blocks_cache, now) <= cache_max_size
          /\ Size(db_cache, now) <= cache_max_size
          /\ Size(data_source_cache, now) <= cache_max_size)
    /\ [][C12_CapacityStep]_vars

\* a listing was stored into the full blocks cache right after a hit on the
\* oldest listing: the hit one is still there and a newer one is gone
C12_Witness ==
    /\ nops = 2
    /\ cache_stats.hits = 1
    /\ last.op = "get_block_children"
    /\ last.calls = 1
    /\ last.raised = "none"
    /\ Size(blocks_cache, now) = cache_max_size
    /\ KeyOf("list", BlockReads[2]) \in Keys(blocks_cache, now)
    /\ KeyOf("list", BlockReads[3]) \notin Keys(blocks_cache, now)
    /\ Size(page_cache, now) = Len(IdReads)

\* the exception classes of exceptions.py
Taxonomy == {"NotionAPIError", "NotionAuthenticationError", "NotionValidationError",
             "NotionRateLimitError", "NotionNotFoundError", "NotionConflictError"}

\* the entries of the four caches
AllEntries ==
    UNION {{c[i] : i \in 1..Len(c)} :
              c \in {page_cache, blocks_cache, db_cache, data_source_cache}}

\* C13: an operation whose remote call is answered 401 raises
\* NotionAuthenticationError, 400 NotionValidationError, 429
\* NotionRateLimitError, 404 NotionNotFoundError, 409 NotionConflictError and
\* any other status >= 400 NotionAPIError itself, whether or not the body
\* of the answer is JSON; the exception carries the status
C13_StatusToErrorKind ==
    LET o == last.sent
    IN (last.calls = 1 /\ o.kind = "status" /\ o.status >= 400) =>
       /\ o.status = 401 => last.raised = "NotionAuthenticationError"
       /\ o.status = 400 => last.raised = "NotionValidationError"
       /\ o.status = 429 => last.raised = "NotionRateLimitError"
       /\ o.status = 404 => last.raised = "NotionNotFoundError"
       /\ o.status = 409 => last.raised = "NotionConflictError"
       /\ o.status \notin {400, 401, 404, 409, 429} => last.raised = "NotionAPIError"
       /\ last.status_code = o.status
       /\ last.ret = NoResp

\* update_page answered 409 has raised NotionConflictError
C13_Witness ==
    /\ last.op = "update_page"
    /\ last.sent.kind = "status"
    /\ last.sent.status = 409
    /\ last.raised = "NotionConflictError"
    /\ last.status_code = 409

\* C14: an operation whose remote call is answered with a status outside
\* 2xx that is none of 400, 401, 404, 409, 429 raises NotionAPIError, and no
\* cache holds a response that came with a status outside 2xx
C14_NonSuccessStatusFails ==
    LET o == last.sent
    IN /\ (/\ last.calls = 1
           /\ o.kind = "status"
           /\ o.status \notin 200..299
           /\ o.status \notin {400, 401, 404, 409, 429})
          => last.raised = "NotionAPIError"
       /\ \A e \in AllEntries : e.value.status \in 200..299

\* C15: an operation whose remote call times out, or cannot connect, raises
\* an exception of a class that is not the NotionAPIError raised for HTTP
\* statuses
C15_TransportErrorKinds ==
    (last.calls = 1 /\ last.sent.kind \in {"timeout", "connect_timeout", "connection"})
    => /\ last.raised # "none"
       /\ last.raised # HandleError(500)

\* C16: an operation whose remote call raises, is answered with a status
\* >= 400 or is answered below 400 with a body that is not JSON raises an
\* exception, and every exception an operation raises after its remote call
\* is of a class of exceptions.py
C16_FailuresAreWrapped ==
    LET o == last.sent
    IN last.calls = 1 =>
       /\ (o.kind # "status" \/ o.status >= 400 \/ ~o.json_ok) => last.raised # "none"
       /\ last.raised # "none" => /\ last.raised \in Taxonomy
                                  /\ last.ret = NoResp

\* get_page answered 200 with a body that is not JSON has raised
\* NotionAPIError and stored nothing
C16_Witness ==
    /\ last.op = "get_page"
    /\ last.sent.kind = "status"
    /\ last.sent.status = 200
    /\ ~last.sent.json_ok
    /\ last.raised = "NotionAPIError"
    /\ page_cache = <<>>

\* C17: create_page with a parent_id P and create_database with
\* parent_page_id P, when they return, leave P a live key of none of the
\* page, database and data-source caches and no live blocks-cache key that is
\* P or P followed by ":" and anything, and a get_page(P) or
\* get_block_children(P, n) right after them makes a remote call;
\* create_page without parent_id leaves the caches and counters as they are
C17_CreateStep ==
    LET l == last'
        p == l.id
    IN (l.op \in {"create_page", "create_database"} /\ l.calls = 1 /\ l.raised = "none")
       => IF p # <<>>
          THEN /\ p \notin Keys(page_cache', now')
               /\ p \notin Keys(db_cache', now')
               /\ p \notin Keys(data_source_cache', now')
               /\ \A k \in Keys(blocks_cache', now') : ~KeyOfId(k, p)
               /\ (has_cache /\ p \in Keys(page_cache, now)) => "pages" \in l.deleted
          ELSE UNCHANGED <<caches, cache_stats>>

C17_CreationInvalidatesParent ==
    /\ [][C17_CreateStep]_vars
    /\ []((/\ prev.op \in {"create_page", "create_database"}
           /\ prev.returned
           /\ last.op \in {"get_page", "get_block_children"})
          => (last.calls = 1 /\ ~last.hit))

\* get_block_children(P, n) has gone remote right after a create_page under
\* P that deleted P's listing from the blocks cache
C17_Witness ==
    /\ has_cache
    /\ prev.op = "create_page"
    /\ prev.returned
    /\ "blocks" \in prev.deleted
    /\ last.op = "get_block_children"
    /\ last.calls = 1
    /\ last.raised = "none"

\* C18: clear_cache("pages" / "blocks" / "databases" / "data_sources")
\* empties the cache it names and leaves the other three as they are,
\* clear_cache() and clear_cache("all") empty all four, clear_cache leaves
\* hits, misses and invalidations as they are, and no operation decreases
\* one of the three counters
C18_ClearStep ==
    LET kind == last'.scope
        Cleared(name, before, after) ==
            IF kind \in {name, "all", "None"} THEN after = <<>> ELSE after = before
    IN /\ cache_stats'.hits >= cache_stats.hits
       /\ cache_stats'.misses >= cache_stats.misses
       /\ cache_stats'.invalidations >= cache_stats.invalidations
       /\ (nops' = nops + 1 /\ last'.op = "clear_cache" /\ enable_caching /\ has_cache
           /\ kind \in {"pages", "blocks", "databases", "data_sources", "all", "None"})
          => /\ Cleared("pages", page_cache, page_cache')
             /\ Cleared("blocks", blocks_cache, blocks_cache')
             /\ Cleared("databases", db_cache, db_cache')
             /\ Cleared("data_sources", data_source_cache, data_source_cache')
             /\ cache_stats' = cache_stats

C18_ClearEmptiesNamedCache == [][C18_ClearStep]_vars

\* clear_cache("blocks") has emptied a full blocks cache and left the other
\* three caches full, with the counters of the reads that filled them
C18_Witness ==
    /\ last.op = "clear_cache"
    /\ last.scope = "blocks"
    /\ blocks_cache = <<>>
    /\ Len(page_cache) = cache_max_size
    /\ Len(db_cache) = cache_max_size
    /\ Len(data_source_cache) = cache_max_size
    /\ cache_stats.misses > 0

\* C19: a create_page call whose parent_type is none of "page_id",
\* "data_source_id" and "workspace", or that gives children together with a
\* template of a type other than "none", or that gives position with a
\* parent that is not a page, raises NotionValidationError without a remote
\* call and leaves every cache entry and every counter as it is
C19_Invalid(a) ==
    \/ a.parent_type \notin {"None", "page_id", "data_source_id", "workspace"}
    \/ a.children /\ a.template \notin {"None", "none"}
    \/ a.position /\ ParentOf(a) # "page_id"

C19_RejectStep ==
    \A a \in CreatePageArgs :
        (C19_Invalid(a) /\ CreatePage(a))
        => /\ last'.raised = "NotionValidationError"
           /\ last'.calls = 0
           /\ UNCHANGED <<caches, cache_stats>>

C19_CreatePageRejectsInvalid == [][C19_RejectStep]_vars

\* C20: when several threads call get_page at the same time and all of
\* their calls have returned, hits + misses is the number of lookups the
\* calls made: no increment of a counter is lost
C20_NoLostIncrement ==
    (\A t \in Threads : thread_pc[t] = "idle")
    => cache_stats.hits + cache_stats.misses = lookups

\* C21: no thread holds _cache_lock while its remote call is in flight or
\* its response waits to be stored: the lock is held only by a thread inside
\* the with block of its lookup, so whenever no thread is inside that block
\* the lock is free for another thread's lookup
C21_LockNotHeldInRequest ==
    /\ \A t \in Threads :
          thread_pc[t] \in {"request", "store", "write_request", "invalidate"}
          => lock # t
    /\ lock # 0 => thread_pc[lock] = "locked"
    /\ (\A t \in Threads : thread_pc[t] # "locked") => lock = 0

\* one thread's remote call is in flight while another thread holds the lock
\* for the lookup of a key that is cached
C21_Witness ==
    \E t, u \in Threads :
        /\ thread_pc[t] = "request"
        /\ thread_pc[u] = "locked"
        /\ lock = u
        /\ Contains(page_cache, now, local[u].page_id)

\* C22: a get_page that has missed stores the response it holds whatever
\* has been written and invalidated since, and a get_page that finds the
\* key returns the cached value without a remote call; so the state is
\* reachable in which, after update_page(X) has returned, the page cache
\* holds X's value from before the write and a get_page(X) has returned it
\* as a hit
C22_StoreStep ==
    \A t \in Threads :
        /\ (thread_pc[t] = "store" /\ thread_pc'[t] = "idle")
           => /\ Contains(page_cache', now', local[t].page_id)
              /\ Lookup(page_cache', now', local[t].page_id) = local[t].data
        /\ (thread_pc[t] = "locked" /\ thread_pc'[t] = "idle")
           => /\ local'[t].hit
              /\ local'[t].data = Lookup(page_cache, now, local[t].page_id)
              /\ remote' = remote

C22_LateStoreIsKept == [][C22_StoreStep]_vars

\* update_page(X) has returned, the page cache holds X's value from before
\* the write, and a get_page(X) has returned that value as a hit
C22_Witness ==
    \E a, b \in Threads :
        LET X == local[b].page_id
        IN /\ \A t \in Threads : thread_pc[t] = "idle"
           /\ local[b].op = "update_page"
           /\ local[b].data # NoResp
           /\ remote[X] = local[b].data.rev
           /\ Contains(page_cache, now, X)
           /\ Lookup(page_cache, now, X).rev < remote[X]
           /\ local[a].op = "get_page"
           /\ local[a].page_id = X
           /\ local[a].hit
           /\ local[a].data = Lookup(page_cache, now, X)

\* the number of live entries of cache c under key k
EntriesFor(c, t, k) == Cardinality({i \in 1..Len(c) : c[i].key = k /\ t < c[i].expires})

\* C30: a get_page that misses makes its own remote call whatever the other
\* threads are doing, and when two get_page calls of one id that both missed
\* have returned, each has made one remote call and the page cache holds
\* one entry for the id, the response of the call that stored last
C30_BothStep ==
    \A t \in Threads :
        /\ (thread_pc[t] = "request" /\ thread_pc'[t] # "request")
           => local'[t].calls = 1
        /\ (thread_pc[t] = "store" /\ thread_pc'[t] = "idle")
           => /\ local[t].calls = 1
              /\ EntriesFor(page_cache', now', local[t].page_id) = 1
              /\ \A u \in Threads \ {t} :
                    (/\ thread_pc[u] = "idle"
                     /\ local[u].op = "get_page"
                     /\ local[u].page_id = local[t].page_id
                     /\ ~local[u].hit
                     /\ local[u].data # NoResp
                     /\ Contains(page_cache, now, local[t].page_id))
                    => Lookup(page_cache', now', local[t].page_id) = local[t].data

C30_ConcurrentReadsBothCall ==
    /\ [][C30_BothStep]_vars
    /\ [](\A k \in Ids : EntriesFor(page_cache, now, k) <= 1)

\* two get_page calls of one uncached id have both missed, both made a
\* remote call and both returned; the second to store has replaced the
\* response of the first, which was a different one
C30_Witness ==
    \E t, u \in Threads :
        /\ t # u
        /\ thread_pc[t] = "idle" /\ thread_pc[u] = "idle"
        /\ local[t].op = "get_page" /\ local[u].op = "get_page"
        /\ local[t].page_id = local[u].page_id
        /\ ~local[t].hit /\ ~local[u].hit
        /\ local[t].calls = 1 /\ local[u].calls = 1
        /\ local[t].data # NoResp /\ local[u].data # NoResp
        /\ local[t].data # local[u].data
        /\ EntriesFor(page_cache, now, local[t].page_id) = 1
        /\ Lookup(page_cache, now, local[t].page_id) = local[u].data

\* C23: on a client constructed without the cache library (the caches, the
\* lock and the counters are None), whether enable_caching is True or
\* False, no cache ever holds an entry, no counter is counted, every read
\* goes to the remote service and get_cache_stats returns without raising
C23_NoLibraryIsNoOp ==
    ~has_cache =>
       /\ page_cache = <<>>
       /\ blocks_cache = <<>>
       /\ db_cache = <<>>
       /\ data_source_cache = <<>>
       /\ cache_stats = [hits |-> 0, misses |-> 0, invalidations |-> 0]
       /\ last.op \in ReadOps => last.calls = 1 /\ ~last.hit
       /\ last.op \in WriteOps => last.deleted = {}
       /\ last.op = "get_cache_stats" => last.raised = "none"

\* C24: after an update_data_source(X, parent = {database_id: D}) that
\* returned, D is not a live key of the database cache
C24_ParentStep ==
    \A id \in Ids, parent \in Ids, o \in Outcomes :
        (UpdateDataSource(id, parent, o) /\ last'.raised = "none")
        => parent \notin Keys(db_cache', now')

C24_UpdateDataSourceInvalidatesParent == [][C24_ParentStep]_vars

\* C25: get_block_children(X, n) is a hit exactly when the blocks cache has
\* a live entry under "X:n", and then returns that entry, which is a
\* listing of X for page size n; every entry of the blocks cache is the
\* listing of the id and page size of its key; and after a write to X that
\* returned no live blocks-cache key is X followed by ":" and a page size
C25_ListingStep ==
    LET l == last'
        key == CacheKey(l.id, l.ps)
    IN /\ (nops' = nops + 1 /\ l.op = "get_block_children" /\ has_cache)
          => /\ l.hit <=> key \in Keys(blocks_cache, now)
             /\ l.hit => /\ l.ret = Lookup(blocks_cache, now, key)
                         /\ l.ret.id = l.id
                         /\ l.ret.ps = l.ps
                         /\ l.calls = 0
       /\ (/\ nops' = nops + 1
           /\ l.op \in {"update_page", "append_block_children", "update_block",
                         "delete_block"}
           /\ l.raised = "none")
          => \A n \in PageSizes : CacheKey(l.id, n) \notin Keys(blocks_cache', now')

C25_ListingsPerPageSize ==
    /\ [][C25_ListingStep]_vars
    /\ [](\A i \in 1..Len(blocks_cache) :
             blocks_cache[i].key = CacheKey(blocks_cache[i].value.id,
                                            blocks_cache[i].value.ps))

\* get_block_children(X, 50) has gone remote while the listing of X for
\* page size 5, stored before it, was live, and both are cached now
C25_Witness ==
    /\ last.op = "get_block_children"
    /\ last.id = IdSeq[1]
    /\ last.ps = PageSizeSeq[2]
    /\ last.calls = 1
    /\ last.raised = "none"
    /\ Len(blocks_cache) = 2
    /\ blocks_cache[1].key = CacheKey(IdSeq[1], PageSizeSeq[1])
    /\ blocks_cache[2].key = CacheKey(IdSeq[1], PageSizeSeq[2])
    /\ now < blocks_cache[1].expires

\* C26: an operation calls the transport once when it goes remote and not
\* at all otherwise; when the transport answers with a status of 400 or
\* more, or raises, or the body does not parse, the operation raises after
\* that one call
C26_NoRetry ==
    /\ last.calls \in {0, 1}
    /\ last.calls = 1 <=> last.sent # NoSent
    /\ last.hit => last.calls = 0
    /\ (last.sent # NoSent /\ ~(last.sent.kind = "status" /\ last.sent.status < 400
                                /\ last.sent.json_ok))
       => (last.raised # "none" /\ last.calls = 1)

\* update_page has raised after its one call was answered 500
C26_Witness ==
    /\ last.op = "update_page"
    /\ last.sent.kind = "status"
    /\ last.sent.status = 500
    /\ last.calls = 1
    /\ last.raised = "NotionAPIError"

\* C27: _invalidate_cache(X, scope) with a scope that is none of page,
\* block, database, data_source and all deletes no entry of any cache,
\* leaves the counters as they are and raises nothing
C27_UnknownScopeStep ==
    (/\ nops' = nops + 1
     /\ last'.op = "_invalidate_cache"
     /\ last'.scope \notin {"page", "block", "database", "data_source", "all"})
    => /\ UNCHANGED <<caches, cache_stats>>
       /\ last'.deleted = {}
       /\ last'.raised = "none"

OnlyOwnEntriesGone(before, after, B) ==
    /\ \A i \in 1..Len(before) :
          ~KeyOfId(before[i].key, B) => \E j \in 1..Len(after) : after[j] = before[i]
    /\ \A j \in 1..Len(after) : \E i \in 1..Len(before) : before[i] = after[j]

\* C28: update_page, update_database, append_block_children, update_block
\* and delete_block addressed to id B leave in every cache each entry whose
\* key is neither B nor B followed by ":" and anything, with its value, and
\* put no entry into any cache
C28_WriteStep ==
    LET l == last'
    IN (/\ nops' = nops + 1
        /\ l.op \in {"update_page", "update_database", "append_block_children",
                      "update_block", "delete_block"})
       => /\ OnlyOwnEntriesGone(page_cache, page_cache', l.id)
          /\ OnlyOwnEntriesGone(blocks_cache, blocks_cache', l.id)
          /\ OnlyOwnEntriesGone(db_cache, db_cache', l.id)
          /\ OnlyOwnEntriesGone(data_source_cache, data_source_cache', l.id)

C28_WriteTouchesOnlyItsId == [][C28_WriteStep]_vars

\* delete_block(B) has deleted B's listings and left the listing of another
\* block cached
C28_Witness ==
    /\ last.op = "delete_block"
    /\ last.id = IdSeq[1]
    /\ last.raised = "none"
    /\ "blocks" \in last.deleted
    /\ \E n \in PageSizes : CacheKey(IdSeq[2], n) \in Keys(blocks_cache, now)
    /\ \A n \in PageSizes : CacheKey(IdSeq[1], n) \notin Keys(blocks_cache, now)

\* C29: every key of the blocks cache is a block id followed by ":" and a
\* page size, and none is a bare id; get_block makes a remote call every
\* time and leaves the caches, the counters and the number of lookups as
\* they are
C29_GetBlockStep ==
    (nops' = nops + 1 /\ last'.op = "get_block")
    => /\ last'.calls = 1
       /\ ~last'.hit
       /\ UNCHANGED <<caches, cache_stats, lookups>>

C29_BlocksKeysAreComposite ==
    /\ [](\A i \in 1..Len(blocks_cache) :
             /\ \E id \in Ids, n \in PageSizes : blocks_cache[i].key = CacheKey(id, n)
             /\ blocks_cache[i].key \notin Ids)
    /\ [][C29_GetBlockStep]_vars

\* get_block(X) has gone remote right after a get_block(X) that returned,
\* while a listing of X is cached
C29_Witness ==
    /\ has_cache
    /\ prev.op = "get_block"
    /\ prev.returned
    /\ last.op = "get_block"
    /\ last.calls = 1
    /\ last.raised = "none"
    /\ \E n \in PageSizes : CacheKey(last.id, n) \in Keys(blocks_cache, now)

====
